---- MODULE Spec2Model ----
(***************************************************************************)
(* The bulk operation / undo engine of backend/bulk_operations.py          *)
(* (BulkOperationService), with the task store it works on.                *)
(*                                                                         *)
(* Every request is handled by a coroutine with its own database session.  *)
(* A coroutine runs without interruption from one real suspension point    *)
(* to the next; the suspension points are the cache calls                  *)
(* (cache.py runs every redis operation in an executor), so each action    *)
(* below is the code between two of them.                                  *)
(***************************************************************************)
EXTENDS Integers, Sequences, FiniteSets, TLC

(* ------------------------------ bounds -------------------------------- *)
\* operations created in one behaviour of Spec
MaxOps == 1
\* length of a request's item list in Spec
MaxItems == 2
\* requests handled concurrently in Spec
MaxCalls == 1

\* operations created in one behaviour of SpecUndo
MaxUndoOps == 12
\* bulk calls of the administrator in SpecUndo
MaxOther == 1
\* operations undone or evicted before the last undo request of SpecUndo
MaxGone == 1

(* --------------------------- program constants ------------------------ *)
\* BulkOperationService._max_undo_operations
max_undo_operations == 10

(* ------------------------------ values -------------------------------- *)
Users == {1, 2}

\* User.role: user 2 is the administrator
role(u) == IF u = 2 THEN "admin" ELSE "user"

Slots == 1..MaxCalls

\* Python's None for a string, for an id and for a datetime
NoneStr == "None"
NoId == 0
NoTime == -1

\* None where a datetime object may stand (Task.due_date)
NoDate == [py |-> "None", t |-> NoTime]

\* a datetime object, and the string isoformat() makes of it
DateTime(t) == [py |-> "datetime", t |-> t]
isoformat(d) == [py |-> "str", t |-> d.t]

\* the columns of Task
TaskColumns ==
  {"id", "title", "description", "completed", "priority", "due_date", "user_id",
   "updated_at"}

\* Task(**task_data): the declarative constructor rejects a key that is no
\* attribute of the class (TypeError)
TaskCtorOk(task_data) == DOMAIN task_data \subseteq TaskColumns

\* the row Task(**task_data) gives once flushed under id n at time t
\* (column defaults: completed False, priority "medium", updated_at now)
NewRow(task_data, n, t) ==
  [id |-> n,
   title |-> task_data.title,
   description |->
     IF "description" \in DOMAIN task_data THEN task_data.description ELSE NoneStr,
   due_date |-> IF "due_date" \in DOMAIN task_data THEN task_data.due_date ELSE NoDate,
   completed |-> IF "completed" \in DOMAIN task_data THEN task_data.completed ELSE FALSE,
   priority |-> IF "priority" \in DOMAIN task_data THEN task_data.priority ELSE "medium",
   user_id |-> IF "user_id" \in DOMAIN task_data THEN task_data.user_id ELSE NoId,
   updated_at |-> IF "updated_at" \in DOMAIN task_data THEN task_data.updated_at ELSE DateTime(t)]

\* the dict the bulk calls build from a task (datetimes through isoformat())
TaskDict(row) ==
  [row EXCEPT !.updated_at = isoformat(@),
              !.due_date = IF @ = NoDate THEN NoDate ELSE isoformat(@)]

\* setattr(task, key, value) for every key of data the task has
Patch(row, data) ==
  [f \in DOMAIN row |-> IF f \in DOMAIN data THEN data[f] ELSE row[f]]

\* a dict assignment that keeps the value of a key the dict already has
DictSet_keeps(d, k, v) == [f \in DOMAIN d \cup {k} |-> IF f \in DOMAIN d THEN d[f] ELSE v]

\* d with key k set / removed (dict assignment, dict.pop)
DictSet(d, k, v) == [f \in DOMAIN d \cup {k} |-> IF f = k THEN v ELSE d[f]]
DictPop(d, k) == [f \in DOMAIN d \ {k} |-> d[f]]

Max(S) == CHOOSE x \in S : \A y \in S : y <= x

\* the elements of a set of integers as an ascending sequence
RECURSIVE SortedSeq(_)
SortedSeq(S) ==
  IF S = {} THEN <<>>
  ELSE IF Cardinality(S) = 1 THEN <<CHOOSE x \in S : TRUE>>
  ELSE LET m == CHOOSE x \in S : Cardinality({y \in S : y < x}) = Cardinality(S) \div 2
       IN SortedSeq({y \in S : y < m}) \o SortedSeq({y \in S : y >= m})

Range(q) == {q[k] : k \in DOMAIN q}

(* ------------------------------- state -------------------------------- *)
VARIABLES
  tasks,        \* the committed rows of table tasks: id -> row
  now,          \* the clock (datetime.utcnow(), func.now())
  operations,   \* _active_operations: operation id -> BulkOperation
  undo_stack,   \* _undo_stack: user id -> list of operation ids (the records are shared with operations)
  calls,        \* the requests in progress: slot -> coroutine state with its session
  txlog,        \* for each operation, what became of its call's transaction
  polled,       \* what the last GET /bulk/status returned
  response,     \* the last answer of a bulk endpoint, where the specification records it
  cache,        \* the keys of the cache service that hold derived data and templates: key -> value
  pending,      \* the cache invalidations a committed call or undo has still to run
  tcalls        \* the create_task_template calls in progress: slot -> coroutine state

vars == <<tasks, now, operations, undo_stack, calls, txlog, polled, response,
          cache, pending, tcalls>>

\* the cache and the coroutines that work on it
kv == <<cache, pending, tcalls>>

\* what the bulk calls leave alone where the cache and the answers are not followed
web == <<response, cache, pending, tcalls>>

\* no answer yet
NoResponse == [status_code |-> 0, operation_id |-> NoId, tasks |-> <<>>]

\* the undo_data of an operation that has none
NoUndo == [operation |-> "None", task_ids |-> <<>>, tasks |-> <<>>]

IdleCall ==
  [pc |-> "idle", kind |-> "None", user |-> NoId, op |-> NoId,
   items |-> <<>>, data |-> <<>>, i |-> 0, processed |-> 0, failed_items |-> 0,
   queried |-> FALSE, matched |-> <<>>, original |-> <<>>, out |-> <<>>,
   pend |-> <<>>]

\* the create_task_template calls handled at the same time
MaxTemplates == 2

TemplateSlots == 1..MaxTemplates

\* a create_task_template call that has not started
IdleTemplateCall == [pc |-> "idle", user |-> NoId, template |-> <<>>, user_templates |-> <<>>]

\* the rows the database holds before the service starts
InitTasks ==
  [n \in {1, 2} |->
     [id |-> n, title |-> "A",
      description |-> IF n = 1 THEN "D" ELSE NoneStr,
      due_date |-> IF n = 1 THEN DateTime(3) ELSE NoDate,
      completed |-> (n = 2), priority |-> "medium",
      user_id |-> n, updated_at |-> DateTime(0)]]

Init ==
  /\ tasks = InitTasks
  /\ now = 0
  /\ operations = <<>>
  /\ undo_stack = [u \in Users |-> <<>>]
  /\ calls = [s \in Slots |-> IdleCall]
  /\ txlog = <<>>
  /\ polled = [id |-> NoId, status |-> "None"]
  /\ response = NoResponse
  /\ cache = <<>>
  /\ pending = {}
  /\ tcalls = [t \in TemplateSlots |-> IdleTemplateCall]

(* --------------------------- the session ------------------------------ *)
\* one pending change of a session: an INSERT, UPDATE or DELETE not yet committed
Ins(row) == [t |-> "ins", id |-> row.id, data |-> row]
Upd(id, data) == [t |-> "upd", id |-> id, data |-> data]
Del(id) == [t |-> "del", id |-> id, data |-> <<>>]

\* Task.updated_at has onupdate=func.now()
OnUpdate(data, t) ==
  IF "updated_at" \in DOMAIN data THEN data ELSE DictSet(data, "updated_at", DateTime(t))

\* one pending change applied to what the table holds under its id: row is
\* the set of the row there, empty when there is none
ApplyOne(row, m, t) ==
  IF m.t = "ins" THEN {m.data}
  ELSE IF m.t = "upd" THEN {Patch(r, OnUpdate(m.data, t)) : r \in row}
  ELSE {}

RECURSIVE ApplyAll(_, _, _)
ApplyAll(row, changes, t) ==
  IF changes = <<>> THEN row
  ELSE ApplyAll(ApplyOne(row, Head(changes), t), Tail(changes), t)

\* the table after the pending changes, each id taking its own changes in order
ApplyPend(rows, pend, t) ==
  LET ids == DOMAIN rows \cup {pend[k].id : k \in DOMAIN pend}
      after(n) == ApplyAll(IF n \in DOMAIN rows THEN {rows[n]} ELSE {},
                           SelectSeq(pend, LAMBDA m : m.id = n), t)
  IN [n \in {i \in ids : after(i) # {}} |-> CHOOSE r \in after(n) : TRUE]

\* what a query of the session sees: the committed rows and its own changes
View(c) == ApplyPend(tasks, c.pend, now)

\* a DateTime column of SQLite takes a datetime object, never a string
Storable(data) ==
  /\ "updated_at" \in DOMAIN data => data.updated_at.py = "datetime"
  /\ "due_date" \in DOMAIN data => data.due_date.py \in {"datetime", "None"}

\* the flush of commit() raises: a value the column type rejects, or an
\* UPDATE / DELETE of a row that is gone (StaleDataError)
FlushRaises(pend) ==
  \E k \in DOMAIN pend :
    \/ pend[k].t \in {"ins", "upd"} /\ ~Storable(pend[k].data)
    \/ pend[k].t \in {"upd", "del"} /\ pend[k].id \notin DOMAIN tasks

\* the id SQLite gives the next inserted row: one more than the largest rowid
\* in use, counting the rows other sessions have flushed
NextTaskId ==
  LET flushed(s) == {calls[s].pend[k].id :
                       k \in {j \in DOMAIN calls[s].pend : calls[s].pend[j].t = "ins"}}
      used == DOMAIN tasks \cup UNION {flushed(s) : s \in Slots}
  IN IF used = {} THEN 1 ELSE Max(used) + 1

(* ----------------------- operation tracking --------------------------- *)
\* BulkOperation(id, user_id, operation_type, status=PENDING, total_items)
NewOperation(operation_id, user_id, operation_type, total_items, t) ==
  [id |-> operation_id, user_id |-> user_id, operation_type |-> operation_type,
   status |-> "pending", total_items |-> total_items,
   processed_items |-> 0, failed_items |-> 0,
   created_at |-> t, started_at |-> NoTime, completed_at |-> NoTime,
   error_message |-> NoneStr, undo_data |-> NoUndo]

\* `if error_message:` a string is true unless it is None or empty
Truthy(str) == str # NoneStr /\ str # ""

\* a faulty variant of update_operation_progress that stores the items still
\* to do in place of the items done: progress runs backwards
update_operation_progress_remaining(ops, operation_id, processed, failed, error_message, t) ==
  IF operation_id \notin DOMAIN ops THEN ops
  ELSE
    LET o1 == [ops[operation_id] EXCEPT
                 !.processed_items = Max({0, ops[operation_id].total_items - processed}),
                 !.failed_items = failed]
        o2 == IF Truthy(error_message)
              THEN [o1 EXCEPT !.error_message = error_message,
                              !.status = "failed", !.completed_at = t]
              ELSE IF processed >= o1.total_items
              THEN [o1 EXCEPT !.status = "completed", !.completed_at = t]
              ELSE IF o1.status = "pending"
              THEN [o1 EXCEPT !.status = "running", !.started_at = t]
              ELSE o1
    IN [ops EXCEPT ![operation_id] = o2]

\* update_operation_progress: the new _active_operations
update_operation_progress(ops, operation_id, processed, failed, error_message, t) ==
  IF operation_id \notin DOMAIN ops THEN ops
  ELSE
    LET o1 == [ops[operation_id] EXCEPT !.processed_items = processed,
                                        !.failed_items = failed]
        o2 == IF Truthy(error_message)
              THEN [o1 EXCEPT !.error_message = error_message,
                              !.status = "failed", !.completed_at = t]
              ELSE IF processed >= o1.total_items
              THEN [o1 EXCEPT !.status = "completed", !.completed_at = t]
              ELSE IF o1.status = "pending"
              THEN [o1 EXCEPT !.status = "running", !.started_at = t]
              ELSE o1
    IN [ops EXCEPT ![operation_id] = o2]

\* a progress that shows nothing done for an operation without items
progress_percentage_of_none(o) ==
  IF o.total_items = 0 THEN [num |-> 0, den |-> 1]
  ELSE [num |-> o.processed_items * 100, den |-> o.total_items]

\* BulkOperation.progress_percentage, as the fraction num / den
progress_percentage(o) ==
  IF o.total_items = 0 THEN [num |-> 100, den |-> 1]
  ELSE [num |-> o.processed_items * 100, den |-> o.total_items]

\* BulkOperation.is_completed
is_completed(o) == o.status \in {"completed", "failed", "cancelled"}

\* a faulty variant of _add_to_undo_stack that drops the newest record, not
\* the oldest, from a stack that is full
add_to_undo_stack_drops_newest(stack, operation_id) ==
  LET appended == Append(stack, operation_id)
  IN IF Len(appended) > max_undo_operations
     THEN SubSeq(appended, 1, max_undo_operations) ELSE appended

\* _add_to_undo_stack: the user's new stack
add_to_undo_stack(stack, operation_id) ==
  LET appended == Append(stack, operation_id)
  IN IF Len(appended) > max_undo_operations THEN Tail(appended) ELSE appended

\* get_undo_history: most recent first
get_undo_history(user_id) ==
  LET user_stack == undo_stack[user_id]
      n == Len(user_stack)
  IN [k \in 1..n |->
        LET o == operations[user_stack[n + 1 - k]]
        IN [id |-> o.id, operation_type |-> o.operation_type,
            total_items |-> o.total_items,
            can_undo |-> o.undo_data # NoUndo]]

(* --------------------------- bulk calls ------------------------------- *)
\* a request is taken by the first coroutine slot that is free
FreeSlot(s) ==
  /\ calls[s].pc = "idle"
  /\ \A r \in Slots : r < s => calls[r].pc # "idle"

\* create_bulk_operation, at the head of every bulk_* method
Begin(s, u, kind, items, data) ==
  /\ FreeSlot(s)
  /\ LET operation_id == Len(operations) + 1
     IN /\ operations' = Append(operations,
                           NewOperation(operation_id, u, kind, Len(items), now))
        /\ txlog' = Append(txlog, "open")
        /\ calls' = [calls EXCEPT ![s] =
                       [IdleCall EXCEPT !.pc = "running", !.kind = kind, !.user = u,
                                        !.op = operation_id, !.items = items,
                                        !.data = data]]
  /\ UNCHANGED <<tasks, now, undo_stack, polled>>

\* a faulty variant of the query that leaves out the filter on the owner
QueryTasks_any_owner(rows, task_ids, u) ==
  SortedSeq({n \in DOMAIN rows : n \in Range(task_ids)})

\* db.query(Task).filter(Task.id.in_(task_ids)) [.filter(Task.user_id == user.id)].all()
QueryTasks(rows, task_ids, u) ==
  SortedSeq({n \in DOMAIN rows :
               /\ n \in Range(task_ids)
               /\ role(u) = "admin" \/ rows[n].user_id = u})

\* the tasks the call works on: loaded by its query, on its first step
Matched(c) ==
  IF c.queried THEN c.matched
  ELSE LET rows == View(c)
           ids == QueryTasks(rows, c.items, c.user)
       IN [k \in DOMAIN ids |-> rows[ids[k]]]

\* bulk_create_tasks, one turn of the loop (lines 196-224)
CreateItem(s) ==
  LET c == calls[s]
      task_data == DictSet(c.items[c.i + 1], "user_id", c.user)
  IN /\ c.pc = "running" /\ c.kind = "create"
     /\ c.i < Len(c.items)
     /\ IF TaskCtorOk(task_data)
        THEN LET db_task == NewRow(task_data, NextTaskId, now)
             IN /\ calls' = [calls EXCEPT ![s].i = c.i + 1,
                                          ![s].pend = Append(c.pend, Ins(db_task)),
                                          ![s].out = Append(c.out, TaskDict(db_task))]
                /\ operations' = update_operation_progress(
                                   operations, c.op, c.i + 1, c.failed_items, NoneStr, now)
        ELSE /\ calls' = [calls EXCEPT ![s].i = c.i + 1,
                                       ![s].failed_items = c.failed_items + 1]
             /\ operations' = update_operation_progress(
                                operations, c.op, c.i + 1, c.failed_items + 1,
                                "TypeError", now)
     /\ UNCHANGED <<tasks, now, undo_stack, txlog, polled>>

\* the keys of an update map that hasattr(task, key) lets through
Attrs(data) == [f \in DOMAIN data \cap TaskColumns |-> data[f]]

\* the snapshot bulk_update_tasks keeps of a task (lines 275-283)
UpdateSnapshot(row) == DictPop(TaskDict(row), "user_id")

\* bulk_update_tasks (also bulk_status_change, bulk_priority_change): the query
\* on the first step, then one turn of the loop (lines 266-293)
UpdateItem(s) ==
  LET c == calls[s]
      found == Matched(c)
  IN /\ c.pc = "running" /\ c.kind = "update"
     /\ c.i < Len(found)
     /\ calls' = [calls EXCEPT
          ![s].queried = TRUE,
          ![s].matched = found,
          ![s].original = IF c.queried THEN c.original
                          ELSE [k \in DOMAIN found |-> UpdateSnapshot(found[k])],
          ![s].i = c.i + 1,
          ![s].pend = Append(c.pend, Upd(found[c.i + 1].id, Attrs(c.data)))]
     /\ operations' = update_operation_progress(operations, c.op, c.i + 1, 0, NoneStr, now)
     /\ UNCHANGED <<tasks, now, undo_stack, txlog, polled>>

\* bulk_delete_tasks: the query on the first step, then one turn of the loop
\* (lines 333-355)
DeleteItem(s) ==
  LET c == calls[s]
      found == Matched(c)
  IN /\ c.pc = "running" /\ c.kind = "delete"
     /\ c.i < Len(found)
     /\ LET deleted_tasks == Append(c.out, TaskDict(found[c.i + 1]))
        IN /\ calls' = [calls EXCEPT
                ![s].queried = TRUE,
                ![s].matched = found,
                ![s].i = c.i + 1,
                ![s].out = deleted_tasks,
                ![s].pend = Append(c.pend, Del(found[c.i + 1].id))]
           /\ operations' = update_operation_progress(
                              operations, c.op, Len(deleted_tasks), 0, NoneStr, now)
     /\ UNCHANGED <<tasks, now, undo_stack, txlog, polled>>

\* a copy that keeps the title of the original as it is
duplicate_data_same_title(task, suffix, u) ==
  [title |-> task.title, description |-> task.description, priority |-> task.priority,
   due_date |-> task.due_date, user_id |-> u, completed |-> FALSE]

\* the dict duplicate_tasks builds for the copy of a task
duplicate_data(task, suffix, u) ==
  [title |-> task.title \o suffix, description |-> task.description,
   priority |-> task.priority, due_date |-> task.due_date, user_id |-> u,
   completed |-> FALSE]

\* duplicate_tasks: the query on the first step, then one turn of the loop
\* (lines 467-502); c.data.suffix is the caller's suffix
DuplicateItem(s) ==
  LET c == calls[s]
      found == Matched(c)
  IN /\ c.pc = "running" /\ c.kind = "duplicate"
     /\ c.i < Len(found)
     /\ LET task == found[c.i + 1]
            db_task == NewRow(duplicate_data(task, c.data.suffix, c.user), NextTaskId, now)
        IN /\ calls' = [calls EXCEPT
                ![s].queried = TRUE,
                ![s].matched = found,
                ![s].i = c.i + 1,
                ![s].out = Append(c.out, TaskDict(db_task)),
                ![s].pend = Append(c.pend, Ins(db_task))]
           /\ operations' = update_operation_progress(
                              operations, c.op, c.i + 1, 0, NoneStr, now)
     /\ UNCHANGED <<tasks, now, undo_stack, txlog, polled>>

\* reorder_tasks: the next item of task_positions, after item c.i, whose task
\* exists and may be touched by the caller (lines 423-430); 0 when there is none
NextReorder(c) ==
  LET rows == View(c)
      hit == {j \in (c.i + 1)..Len(c.items) :
                /\ c.items[j].id \in DOMAIN rows
                /\ role(c.user) = "admin" \/ rows[c.items[j].id].user_id = c.user}
  IN IF hit = {} THEN 0 ELSE CHOOSE j \in hit : \A k \in hit : j <= k

\* reorder_tasks: the loop up to and including the next task it re-stamps
\* (lines 423-433)
ReorderItem(s) ==
  LET c == calls[s]
      j == NextReorder(c)
  IN /\ c.pc = "running" /\ c.kind = "reorder"
     /\ j # 0
     /\ LET order_time == DateTime(now - c.items[j].position)
        IN calls' = [calls EXCEPT
             ![s].i = j,
             ![s].processed = c.processed + 1,
             ![s].pend = Append(c.pend, Upd(c.items[j].id, [updated_at |-> order_time]))]
     /\ operations' = update_operation_progress(
                        operations, c.op, c.processed + 1, 0, NoneStr, now)
     /\ UNCHANGED <<tasks, now, undo_stack, txlog, polled>>

\* the loop of the call is over: db.commit() is next
LoopDone(c) ==
  CASE c.kind = "create" -> c.i = Len(c.items)
    [] c.kind = "reorder" -> NextReorder(c) = 0
    [] OTHER -> c.i = Len(Matched(c))

\* db.commit() and the start of the cache invalidation that follows it
Commit(s) ==
  LET c == calls[s]
  IN /\ c.pc = "running"
     /\ LoopDone(c)
     /\ ~FlushRaises(c.pend)
     /\ tasks' = ApplyPend(tasks, c.pend, now)
     /\ txlog' = [txlog EXCEPT ![c.op] = "committed"]
     /\ calls' = [calls EXCEPT ![s].pc = "committed", ![s].queried = TRUE,
                               ![s].pend = <<>>]
     /\ UNCHANGED <<now, operations, undo_stack, polled>>

\* undo data that is kept for a bulk create only
UndoDataOf_create_only(c) ==
  IF c.kind = "create"
  THEN [operation |-> "delete", task_ids |-> [k \in DOMAIN c.out |-> c.out[k].id],
        tasks |-> <<>>]
  ELSE NoUndo

\* the undo_data each bulk_* method stores after its commit; reorder_tasks and
\* duplicate_tasks store none
UndoDataOf(c) ==
  CASE c.kind = "create" ->
         [operation |-> "delete", task_ids |-> [k \in DOMAIN c.out |-> c.out[k].id],
          tasks |-> <<>>]
    [] c.kind = "update" ->
         [operation |-> "update", task_ids |-> <<>>, tasks |-> c.original]
    [] c.kind = "delete" ->
         [operation |-> "create", task_ids |-> <<>>, tasks |-> c.out]
    [] OTHER -> NoUndo

\* after the invalidation: store undo data, _add_to_undo_stack, return; the
\* router builds its answer without suspending, so the request ends here
Finish(s) ==
  LET c == calls[s]
  IN /\ c.pc = "committed"
     /\ IF c.kind \in {"create", "update", "delete"}
        THEN /\ operations' = [operations EXCEPT ![c.op].undo_data = UndoDataOf(c)]
             /\ undo_stack' = [undo_stack EXCEPT ![c.user] = add_to_undo_stack(@, c.op)]
        ELSE UNCHANGED <<operations, undo_stack>>
     /\ calls' = [calls EXCEPT ![s] = IdleCall]
     /\ UNCHANGED <<tasks, now, txlog, polled>>

\* the call is at a statement that talks to the database outside the
\* per-item try of bulk_create_tasks: a query, a flush or the commit
AtDatabase(c) ==
  CASE c.kind = "create" -> LoopDone(c)
    [] c.kind \in {"update", "delete"} -> ~c.queried \/ LoopDone(c)
    [] OTHER -> TRUE

\* a faulty variant of the except branch that reports the items processed
\* before the error in place of 0
Fail_keeps_processed(s) ==
  LET c == calls[s]
  IN /\ c.pc = "running"
     /\ AtDatabase(c)
     /\ txlog' = [txlog EXCEPT ![c.op] = "rolledback"]
     /\ operations' = update_operation_progress(
                        operations, c.op, c.processed, Len(c.items), "OperationalError", now)
     /\ calls' = [calls EXCEPT ![s] = IdleCall]
     /\ UNCHANGED <<tasks, now, undo_stack, polled>>

\* the outer except of every bulk_* method: the database raised (the store is
\* unavailable, or the flush of the commit fails); rollback, the last progress
\* update, and the exception ends the request
Fail(s) ==
  LET c == calls[s]
  IN /\ c.pc = "running"
     /\ AtDatabase(c)
     /\ txlog' = [txlog EXCEPT ![c.op] = "rolledback"]
     /\ operations' = update_operation_progress(
                        operations, c.op, 0, Len(c.items), "OperationalError", now)
     /\ calls' = [calls EXCEPT ![s] = IdleCall]
     /\ UNCHANGED <<tasks, now, undo_stack, polled>>

\* get_operation_status, from memory
GetStatus(operation_id) ==
  /\ operation_id \in DOMAIN operations
  /\ polled' = [id |-> operation_id, status |-> operations[operation_id].status]
  /\ UNCHANGED <<tasks, now, operations, undo_stack, calls, txlog>>

(* ------------------------------- undo --------------------------------- *)
\* a faulty variant of the target selection that, without an id, takes the
\* oldest record of the stack
UndoTarget_oldest(user_stack, operation_id) ==
  IF user_stack = <<>> THEN NoId
  ELSE IF operation_id # NoId
  THEN LET hit == {k \in DOMAIN user_stack : user_stack[k] = operation_id}
       IN IF hit = {} THEN NoId
          ELSE user_stack[CHOOSE k \in hit : \A j \in hit : k <= j]
  ELSE user_stack[1]

\* undo_operation, lines 526-536: the operation it picks, NoId when it finds none
UndoTarget(user_stack, operation_id) ==
  IF user_stack = <<>> THEN NoId
  ELSE IF operation_id # NoId
  THEN LET hit == {k \in DOMAIN user_stack : user_stack[k] = operation_id}
       IN IF hit = {} THEN NoId
          ELSE user_stack[CHOOSE k \in hit : \A j \in hit : k <= j]
  ELSE user_stack[Len(user_stack)]

\* the task dicts of undo_data after the "create" branch popped their ids
PopIds(undo_data) ==
  IF undo_data.operation = "create"
  THEN [undo_data EXCEPT !.tasks = [k \in DOMAIN @ |-> DictPop(@[k], "id")]]
  ELSE undo_data

\* a faulty variant of the inverse of a bulk create that deletes the first
\* created task only
UndoPend_first_only(rows, undo_data, first_id) ==
  IF undo_data.operation = "delete"
  THEN LET gone == SelectSeq(undo_data.task_ids, LAMBDA n : n \in DOMAIN rows)
       IN IF gone = <<>> THEN <<>> ELSE <<Del(gone[1])>>
  ELSE <<>>

\* the changes the session holds when undo_operation reaches db.commit()
\* (lines 544-563), over the rows it sees; first_id is the id of its first insert
UndoPend(rows, undo_data, first_id) ==
  CASE undo_data.operation = "delete" ->
         LET gone == SelectSeq(undo_data.task_ids, LAMBDA n : n \in DOMAIN rows)
         IN [k \in DOMAIN gone |-> Del(gone[k])]
    [] undo_data.operation = "create" ->
         [k \in DOMAIN undo_data.tasks |->
            Ins(NewRow(DictPop(undo_data.tasks[k], "id"), first_id + k - 1, now))]
    [] undo_data.operation = "update" ->
         LET there == SelectSeq(undo_data.tasks, LAMBDA d : d.id \in DOMAIN rows)
         IN [k \in DOMAIN there |-> Upd(there[k].id, DictPop(there[k], "id"))]
    [] OTHER -> <<>>

\* a faulty variant of the removal that leaves the record on the stack
Remove_nothing(list, x) == list

\* list.remove: the list without its first element equal to x
Remove(list, x) ==
  LET hit == {k \in DOMAIN list : list[k] = x}
      first == CHOOSE k \in hit : \A j \in hit : k <= j
  IN IF hit = {} THEN list
     ELSE [k \in 1..(Len(list) - 1) |-> IF k < first THEN list[k] ELSE list[k + 1]]

\* undo_operation: what it returns; unavailable: the database raises in this call
UndoResult(u, operation_id, unavailable) ==
  LET target == UndoTarget(undo_stack[u], operation_id)
  IN /\ target # NoId
     /\ operations[target].undo_data # NoUndo
     /\ ~unavailable
     /\ ~FlushRaises(UndoPend(tasks, operations[target].undo_data, NextTaskId))

\* undo_operation (lines 526-579). It suspends only after its commit and after
\* it has taken the operation off the stack, so it is one step
Undo(u, operation_id, unavailable) ==
  LET target == UndoTarget(undo_stack[u], operation_id)
  IN /\ UNCHANGED <<now, calls, txlog, polled>>
     /\ IF target = NoId \/ operations[target].undo_data = NoUndo
        THEN UNCHANGED <<tasks, operations, undo_stack>>
        ELSE LET undo_data == operations[target].undo_data
                 pend == UndoPend(tasks, undo_data, NextTaskId)
             IN /\ operations' = [operations EXCEPT ![target].undo_data = PopIds(undo_data)]
                /\ IF UndoResult(u, operation_id, unavailable)
                   THEN /\ tasks' = ApplyPend(tasks, pend, now)
                        /\ undo_stack' = [undo_stack EXCEPT ![u] = Remove(@, target)]
                   ELSE UNCHANGED <<tasks, undo_stack>>

(* --------------------------- the requests ----------------------------- *)
\* the ids a request may name: the two rows of InitTasks and the next id
TaskIdPool == {1, 2, 3}

\* the lists 1..n of elements of S, n from 1 to MaxItems
Lists(S) == UNION {[1..n -> S] : n \in 1..MaxItems}

\* a task_ids list: some ids of the pool, each once
IdLists == {SortedSeq(S) : S \in {T \in SUBSET TaskIdPool : T # {} /\ Cardinality(T) <= MaxItems}}

\* POST /bulk/create: a valid task, and one with a key Task does not have
CreateItems == {[title |-> "A"], [title |-> "A", colour |-> "red"]}

\* PUT /bulk/status and PUT /bulk/priority, as the update map they pass on
UpdateMaps == {[completed |-> TRUE], [priority |-> "high"]}

\* PUT /bulk/reorder: the tasks in the wanted order, position = place in the list
ReorderLists == {[k \in DOMAIN ids |-> [id |-> ids[k], position |-> k]] : ids \in IdLists}

\* the steps of a call up to its commit; they give no answer
Work(s) ==
  \/ CreateItem(s) /\ UNCHANGED web
  \/ UpdateItem(s) /\ UNCHANGED web
  \/ DeleteItem(s) /\ UNCHANGED web
  \/ DuplicateItem(s) /\ UNCHANGED web
  \/ ReorderItem(s) /\ UNCHANGED web
  \/ Commit(s) /\ UNCHANGED web

Step(s) ==
  \/ Work(s)
  \/ Finish(s) /\ UNCHANGED web
  \/ Fail(s) /\ UNCHANGED web

\* the bulk requests of user u
Request(s, u) ==
  \/ \E items \in Lists(CreateItems) : Begin(s, u, "create", items, <<>>)
  \/ \E ids \in IdLists, data \in UpdateMaps : Begin(s, u, "update", ids, data)
  \/ \E ids \in IdLists : Begin(s, u, "delete", ids, <<>>)
  \/ \E ids \in IdLists : Begin(s, u, "duplicate", ids, [suffix |-> " (Copy)"])
  \/ \E items \in ReorderLists : Begin(s, u, "reorder", items, <<>>)

\* the service under valid requests; the answers are not recorded
Next ==
  \/ \E s \in Slots, u \in Users :
       Len(operations) < MaxOps /\ Request(s, u) /\ UNCHANGED web
  \/ \E u \in Users, id \in {NoId} \cup DOMAIN operations, unavailable \in BOOLEAN :
       Undo(u, id, unavailable) /\ UNCHANGED web
  \/ \E s \in Slots : Step(s)

Spec == Init /\ [][Next]_vars

\* the same with a client that polls GET /bulk/status
NextPoll ==
  \/ Next
  \/ \E id \in DOMAIN operations : GetStatus(id) /\ UNCHANGED web

SpecPoll == Init /\ [][NextPoll]_vars

(* ----------------------- the HTTP endpoints --------------------------- *)
\* the longest lists the request models accept
max_create_tasks == 100
max_task_ids == 1000
max_duplicate_ids == 100
max_task_positions == 1000

\* a validator of the create body that does not look at the items
validate_tasks_any_item(v) == Len(v) # 0 /\ ~(Len(v) > max_create_tasks)

\* BulkCreateRequest.validate_tasks
validate_tasks(v) ==
  /\ Len(v) # 0
  /\ ~(Len(v) > max_create_tasks)
  /\ \A k \in DOMAIN v : "title" \in DOMAIN v[k] /\ v[k].title # ""

\* validate_task_ids of BulkUpdateRequest, BulkDeleteRequest,
\* BulkStatusChangeRequest, BulkPriorityChangeRequest (maximum 1000) and of
\* BulkDuplicateRequest (maximum 100)
validate_task_ids(v, maximum) == Len(v) # 0 /\ ~(Len(v) > maximum)

\* BulkPriorityChangeRequest.validate_priority
validate_priority(v) == v \in {"low", "medium", "high"}

\* TaskReorderRequest.validate_positions
validate_positions(v) ==
  /\ Len(v) # 0
  /\ ~(Len(v) > max_task_positions)
  /\ \A k \in DOMAIN v : "id" \in DOMAIN v[k] /\ "position" \in DOMAIN v[k]

\* the request body passes the validators of its model
Validates(req) ==
  CASE req.endpoint = "create" -> validate_tasks(req.tasks)
    [] req.endpoint = "update" -> validate_task_ids(req.task_ids, max_task_ids)
    [] req.endpoint = "delete" -> validate_task_ids(req.task_ids, max_task_ids)
    [] req.endpoint = "status" -> validate_task_ids(req.task_ids, max_task_ids)
    [] req.endpoint = "priority" ->
         validate_task_ids(req.task_ids, max_task_ids) /\ validate_priority(req.priority)
    [] req.endpoint = "reorder" -> validate_positions(req.task_positions)
    [] req.endpoint = "duplicate" -> validate_task_ids(req.task_ids, max_duplicate_ids)

\* the service call each endpoint makes
Serve(s, u, req) ==
  CASE req.endpoint = "create" -> Begin(s, u, "create", req.tasks, <<>>)
    [] req.endpoint = "update" -> Begin(s, u, "update", req.task_ids, req.update_data)
    [] req.endpoint = "delete" -> Begin(s, u, "delete", req.task_ids, <<>>)
    [] req.endpoint = "status" ->
         Begin(s, u, "update", req.task_ids, [completed |-> req.completed])
    [] req.endpoint = "priority" ->
         Begin(s, u, "update", req.task_ids, [priority |-> req.priority])
    [] req.endpoint = "reorder" -> Begin(s, u, "reorder", req.task_positions, <<>>)
    [] req.endpoint = "duplicate" ->
         Begin(s, u, "duplicate", req.task_ids, [suffix |-> req.suffix])

\* a request arrives: a body the validators refuse is answered 422 before the
\* endpoint function is entered; any other starts the service call
Receive(s, u, req) ==
  IF Validates(req)
  THEN /\ Len(operations) < MaxOps
       /\ Serve(s, u, req)
       /\ UNCHANGED response
  ELSE /\ response' = [status_code |-> 422, operation_id |-> NoId, tasks |-> <<>>]
       /\ UNCHANGED <<tasks, now, operations, undo_stack, calls, txlog, polled>>

\* the answer of an endpoint whose service call returned
Returned(c) ==
  [status_code |-> 200, operation_id |-> c.op,
   tasks |-> IF c.kind \in {"create", "duplicate"} THEN c.out ELSE <<>>]

\* the answer of an endpoint whose service call raised: HTTPException(500)
\* with the message of the error as its detail
Raised(c) == [status_code |-> 500, operation_id |-> NoId, tasks |-> <<>>]

\* n copies of x, and the ids 1..n
Repeat(x, n) == [k \in 1..n |-> x]
Count(n) == [k \in 1..n |-> k]

\* request bodies at and around what the validators accept
CreateBodies ==
  {<<>>, <<[title |-> "A"]>>, <<[title |-> "A", user_id |-> 2]>>,
   <<[title |-> "A", user_id |-> 2], [title |-> "A", completed |-> TRUE]>>,
   <<[title |-> "A", colour |-> "red"]>>,
   <<[priority |-> "high"]>>, <<[title |-> ""]>>,
   Repeat([title |-> "A"], max_create_tasks), Repeat([title |-> "A"], max_create_tasks + 1)}

IdBodies == {<<>>, <<1>>, <<1, 2>>, Count(max_task_ids), Count(max_task_ids + 1)}

DuplicateBodies ==
  {<<>>, <<1>>, <<1, 2>>, Count(max_duplicate_ids), Count(max_duplicate_ids + 1)}

PositionBodies ==
  {<<>>, <<[id |-> 1, position |-> 1]>>, <<[id |-> 1]>>,
   [k \in 1..max_task_positions |-> [id |-> k, position |-> k]],
   [k \in 1..(max_task_positions + 1) |-> [id |-> k, position |-> k]]}

ApiRequests ==
  {[endpoint |-> "create", tasks |-> b] : b \in CreateBodies}
  \cup {[endpoint |-> "update", task_ids |-> b, update_data |-> [completed |-> TRUE]] :
          b \in IdBodies}
  \cup {[endpoint |-> "update", task_ids |-> <<1>>, update_data |-> [user_id |-> 2]]}
  \cup {[endpoint |-> "delete", task_ids |-> b] : b \in IdBodies}
  \cup {[endpoint |-> "status", task_ids |-> b, completed |-> TRUE] : b \in {<<>>, <<1>>}}
  \cup {[endpoint |-> "priority", task_ids |-> b, priority |-> p] :
          b \in {<<>>, <<1>>}, p \in {"high", "urgent"}}
  \cup {[endpoint |-> "reorder", task_positions |-> b] : b \in PositionBodies}
  \cup {[endpoint |-> "duplicate", task_ids |-> b, suffix |-> " (Copy)"] :
          b \in DuplicateBodies}

\* the endpoints with their answers, the requests sent one after the other
NextApi ==
  \/ \E u \in Users, req \in ApiRequests :
       (\A r \in Slots : calls[r].pc = "idle") /\ Receive(1, u, req) /\ UNCHANGED kv
  \/ \E s \in Slots : Work(s)
  \/ \E s \in Slots : Finish(s) /\ response' = Returned(calls[s]) /\ UNCHANGED kv
  \/ \E s \in Slots : Fail(s) /\ response' = Raised(calls[s]) /\ UNCHANGED kv

SpecApi == Init /\ [][NextApi]_vars

(* ------------------- long histories of one user ----------------------- *)
\* the call that runs operation o has returned or raised
Finished(o) == \A s \in Slots : calls[s].op # o

\* the operations user u has started
OpsOf(u) == {o \in DOMAIN operations : operations[o].user_id = u}

\* the operations that were pushed on a stack and are on none now: undone or evicted
Gone ==
  {o \in DOMAIN operations :
     /\ Finished(o)
     /\ operations[o].undo_data # NoUndo
     /\ \A u \in Users : o \notin Range(undo_stack[u])}

\* bulk creates of one task handled one after the other, and undo requests:
\* enough operations of user 1 to fill its undo stack and overflow it. A
\* client may ask at any time to undo an operation that is on no stack any more
NextUndo ==
  \/ \E u \in Users :
       /\ Len(operations) < MaxUndoOps
       /\ u = 2 => Cardinality(OpsOf(2)) < MaxOther
       /\ Begin(1, u, "create", <<[title |-> "A"]>>, <<>>)
       /\ UNCHANGED web
  \/ CreateItem(1) /\ UNCHANGED web
  \/ Commit(1) /\ UNCHANGED web
  \/ Finish(1) /\ UNCHANGED web
  \/ /\ Cardinality(Gone) < MaxGone
     /\ \E u \in Users, id \in {NoId} \cup DOMAIN operations, unavailable \in BOOLEAN :
          Undo(u, id, unavailable) /\ UNCHANGED web
  \/ \E u \in Users, id \in Gone, unavailable \in BOOLEAN :
       Undo(u, id, unavailable) /\ UNCHANGED web

SpecUndo == Init /\ [][NextUndo]_vars

(* ---------------- the tracking methods called directly ---------------- *)
\* the largest total_items and the latest time of the clock
MaxTotal == 2
MaxTime == 2

\* create_bulk_operation alone: a record of total items, no task work behind it
CreateOperation(u, kind, total) ==
  /\ operations' = Append(operations,
                     NewOperation(Len(operations) + 1, u, kind, total, now))
  /\ txlog' = Append(txlog, "none")
  /\ UNCHANGED <<tasks, now, undo_stack, calls, polled>>

\* update_operation_progress called with any report
UpdateProgress(id, processed, failed, error_message) ==
  /\ operations' = update_operation_progress(
                     operations, id, processed, failed, error_message, now)
  /\ UNCHANGED <<tasks, now, undo_stack, calls, txlog, polled>>

\* time passes
Tick ==
  /\ now < MaxTime
  /\ now' = now + 1
  /\ UNCHANGED <<tasks, operations, undo_stack, calls, txlog, polled>>

\* one tracked operation, with or without items, and any sequence of reports
NextProgress ==
  \/ \E total \in 0..MaxTotal :
       operations = <<>> /\ CreateOperation(1, "create", total) /\ UNCHANGED web
  \/ \E id \in {1, 2}, processed \in 0..(MaxTotal + 1), failed \in {0, 1},
        error_message \in {NoneStr, "", "OperationalError"} :
       UpdateProgress(id, processed, failed, error_message) /\ UNCHANGED web
  \/ Tick /\ UNCHANGED web

SpecProgress == Init /\ [][NextProgress]_vars

(* ------------------- reorder while the clock runs --------------------- *)
\* reorder calls, one at a time, with time passing between their steps
NextClock ==
  \/ \E u \in Users, items \in ReorderLists :
       Len(operations) < MaxOps /\ Begin(1, u, "reorder", items, <<>>) /\ UNCHANGED web
  \/ ReorderItem(1) /\ UNCHANGED web
  \/ Commit(1) /\ UNCHANGED web
  \/ Finish(1) /\ UNCHANGED web
  \/ Fail(1) /\ UNCHANGED web
  \/ Tick /\ UNCHANGED web

SpecClock == Init /\ [][NextClock]_vars

(* ------------------ bulk calls next to single tasks ------------------- *)
\* the most rows the table holds
MaxRows == 3

\* POST /api/tasks: one task of the caller, committed at once
create_task(u, title) ==
  /\ tasks' = ApplyPend(tasks,
                <<Ins(NewRow([title |-> title, user_id |-> u], NextTaskId, now))>>, now)
  /\ UNCHANGED <<now, operations, undo_stack, calls, txlog, polled>>

\* DELETE /api/tasks/{task_id}: 404 for no such task, 403 for a task of
\* another user unless the caller is an administrator
delete_task(u, task_id) ==
  /\ task_id \in DOMAIN tasks
  /\ role(u) = "admin" \/ tasks[task_id].user_id = u
  /\ tasks' = ApplyPend(tasks, <<Del(task_id)>>, now)
  /\ UNCHANGED <<now, operations, undo_stack, calls, txlog, polled>>

\* bulk creates of one task and their undo, between single-task requests
NextCrud ==
  \/ \E u \in Users :
       /\ Len(operations) < MaxOps
       /\ Begin(1, u, "create", <<[title |-> "A"]>>, <<>>)
       /\ UNCHANGED web
  \/ CreateItem(1) /\ UNCHANGED web
  \/ Commit(1) /\ UNCHANGED web
  \/ Finish(1) /\ UNCHANGED web
  \/ \E u \in Users :
       Cardinality(DOMAIN View(calls[1])) < MaxRows /\ create_task(u, "B") /\ UNCHANGED web
  \/ \E u \in Users, task_id \in 1..(MaxRows + 1) : delete_task(u, task_id) /\ UNCHANGED web
  \/ \E u \in Users, id \in {NoId} \cup DOMAIN operations, unavailable \in BOOLEAN :
       Undo(u, id, unavailable) /\ UNCHANGED web

SpecCrud == Init /\ [][NextCrud]_vars

(* ------------------------------ the cache ----------------------------- *)
\* a key of the cache: its prefix, and its name as the text before a number,
\* the number, and the text after it (empty, or beginning with "_")
Key(prefix, head, n, tail) == [prefix |-> prefix, head |-> head, n |-> n, tail |-> tail]

\* TASK_CACHE_PREFIX + f"user_{user_id}_tasks"
user_tasks_key(user_id) == Key("todo_task:", "user_", user_id, "_tasks")

\* USER_CACHE_PREFIX + str(user_id)
user_data_key(user_id) == Key("todo_user:", "", user_id, "")

\* "search:" + SearchService._generate_cache_key(filters, user), for one set of filters
search_key(user_id) == Key("search:", "user_", user_id, "_completed_None_priority_all")

\* "suggestions:" + f"user_{user.id}_suggestions_{query.lower()}", for one query
suggestions_key(user_id) == Key("suggestions:", "user_", user_id, "_suggestions_a")

\* "stats:" + f"user_{user.id}_filter_stats"
stats_key(user_id) == Key("stats:", "user_", user_id, "_filter_stats")

\* "templates:" + f"template_{template.id}"
template_key(template_id) == Key("templates:", "template_", template_id, "")

\* "templates:" + f"user_{user.id}_templates"
user_templates_key(user_id) == Key("templates:", "user_", user_id, "_templates")

\* str(n), for n < 100
Digits(n) == IF n < 10 THEN <<n>> ELSE <<n \div 10, n % 10>>

IsPrefix(a, b) == Len(a) <= Len(b) /\ \A k \in DOMAIN a : a[k] = b[k]

\* what cache_service.get returns for a key that is not there: None
NoValue == [py |-> "None", value |-> <<>>]

\* SimpleCacheService.set
set(c, key, value) == [k \in DOMAIN c \cup {key} |-> IF k = key THEN value ELSE c[k]]

\* SimpleCacheService.get
get(c, key) == IF key \in DOMAIN c THEN [py |-> "object", value |-> c[key]] ELSE NoValue

\* SimpleCacheService.delete
delete(c, key) == [k \in DOMAIN c \ {key} |-> c[k]]

\* the keys a glob pattern names: f"user_{user_id}_*" and f"*user_{user_id}*"
MatchesOwn(key, user_id) ==
  key.head = "user_" /\ Digits(key.n) = Digits(user_id) /\ key.tail # ""

MatchesAny(key, user_id) ==
  key.head = "user_" /\ IsPrefix(Digits(user_id), Digits(key.n))

\* SimpleCacheService.delete_pattern with each of the two patterns
delete_pattern(c, user_id, prefix) ==
  [k \in {x \in DOMAIN c :
            ~(x.prefix = prefix /\ (MatchesOwn(x, user_id) \/ MatchesAny(x, user_id)))}
     |-> c[k]]

\* an invalidation that forgets the cached searches only
invalidate_search_cache_searches_only(c, user_id) == delete_pattern(c, user_id, "search:")

\* SearchService.invalidate_search_cache
invalidate_search_cache(c, user_id) ==
  delete_pattern(delete_pattern(delete_pattern(c, user_id, "search:"),
                                user_id, "suggestions:"),
                 user_id, "stats:")

\* SimpleCacheService.invalidate_user_cache
invalidate_user_cache(c, user_id) ==
  delete(delete(c, user_data_key(user_id)), user_tasks_key(user_id))

\* what a read of user u computes from the table: the tasks u may see
Visible(u) == {n \in DOMAIN tasks : role(u) = "admin" \/ tasks[n].user_id = u}

\* GET /api/tasks without filters: answered from the cache when the listing is
\* there, computed and cached for a user who is no administrator otherwise
get_tasks(u) ==
  /\ get(cache, user_tasks_key(u)).py = "None"
  /\ role(u) # "admin"
  /\ cache' = set(cache, user_tasks_key(u), Visible(u))
  /\ UNCHANGED <<tasks, now, operations, undo_stack, calls, txlog, polled, response,
                 pending, tcalls>>

\* the reads of the search service for user u, one of each: search_tasks with
\* filters and no query, get_search_suggestions, get_filter_stats; each caches
\* what it computed
search_tasks(u) ==
  /\ \E key \in {search_key(u), suggestions_key(u), stats_key(u)} : get(cache, key).py = "None"
  /\ cache' = set(set(set(cache, search_key(u), Visible(u)),
                      suggestions_key(u), Visible(u)),
                  stats_key(u), Cardinality(Visible(u)))
  /\ UNCHANGED <<tasks, now, operations, undo_stack, calls, txlog, polled, response,
                 pending, tcalls>>

\* an invalidation a call has still to run: by is the slot of the bulk call,
\* 0 for an undo; step is the next of its two calls
Invalidation(by, u) == [by |-> by, user |-> u, step |-> "search"]

\* db.commit() of a bulk call; the invalidation follows
CommitThenInvalidate(s) ==
  /\ Commit(s)
  /\ pending' = pending \cup {Invalidation(s, calls[s].user)}
  /\ UNCHANGED <<response, cache, tcalls>>

\* await search_service.invalidate_search_cache(user.id)
InvalidateSearch(p) ==
  /\ p \in pending
  /\ p.step = "search"
  /\ cache' = invalidate_search_cache(cache, p.user)
  /\ pending' = (pending \ {p}) \cup {[p EXCEPT !.step = "user"]}
  /\ UNCHANGED <<tasks, now, operations, undo_stack, calls, txlog, polled, response, tcalls>>

\* await cache_service.invalidate_user_cache(user.id)
InvalidateUser(p) ==
  /\ p \in pending
  /\ p.step = "user"
  /\ cache' = invalidate_user_cache(cache, p.user)
  /\ pending' = pending \ {p}
  /\ UNCHANGED <<tasks, now, operations, undo_stack, calls, txlog, polled, response, tcalls>>

\* the rest of a bulk call after its invalidation: undo data, return
FinishInvalidated(s) ==
  /\ \A p \in pending : p.by # s
  /\ Finish(s)
  /\ UNCHANGED web

\* undo_operation; after its commit it invalidates as the bulk calls do
UndoThenInvalidate(u, operation_id, unavailable) ==
  /\ \A p \in pending : p.by # 0
  /\ Undo(u, operation_id, unavailable)
  /\ pending' = IF UndoResult(u, operation_id, unavailable)
                THEN pending \cup {Invalidation(0, u)}
                ELSE pending
  /\ UNCHANGED <<response, cache, tcalls>>

\* one input for each kind of bulk call
CacheRequest(s, u) ==
  \/ Begin(s, u, "create", <<[title |-> "A"]>>, <<>>)
  \/ Begin(s, u, "update", <<1, 2>>, [completed |-> TRUE])
  \/ Begin(s, u, "delete", <<1, 2>>, <<>>)
  \/ Begin(s, u, "duplicate", <<1, 2>>, [suffix |-> " (Copy)"])
  \/ Begin(s, u, "reorder", <<[id |-> 1, position |-> 1], [id |-> 2, position |-> 2]>>, <<>>)

\* bulk calls and undo requests of users whose reads fill the cache
NextCache ==
  \/ \E u \in Users : Len(operations) < MaxOps /\ CacheRequest(1, u) /\ UNCHANGED web
  \/ CreateItem(1) /\ UNCHANGED web
  \/ UpdateItem(1) /\ UNCHANGED web
  \/ DeleteItem(1) /\ UNCHANGED web
  \/ DuplicateItem(1) /\ UNCHANGED web
  \/ ReorderItem(1) /\ UNCHANGED web
  \/ CommitThenInvalidate(1)
  \/ \E p \in pending : InvalidateSearch(p)
  \/ \E p \in pending : InvalidateUser(p)
  \/ FinishInvalidated(1)
  \/ Fail(1) /\ UNCHANGED web
  \/ \E u \in Users, unavailable \in BOOLEAN : UndoThenInvalidate(u, NoId, unavailable)
  \/ \E u \in Users : get_tasks(u)
  \/ \E u \in Users : search_tasks(u)

SpecCache == Init /\ [][NextCache]_vars

(* ---------------------------- the templates --------------------------- *)
\* json.dumps(template.dict(), default=str): the datetime becomes its str()
dumps(template) == [template EXCEPT !.created_at = [py |-> "str", t |-> @.t]]

\* TaskTemplate(**template_data): the created_at string is parsed to a datetime
TaskTemplate(template_data) == [template_data EXCEPT !.created_at = DateTime(@.t)]

\* `if not user_templates:` what the cache gave is None or an empty list
Falsy(got) == got.py = "None" \/ got.value = <<>>

\* create_task_template up to its first await: the template is built, under a
\* fresh uuid4 (here the number of the call), and stored under its own key
StartTemplate(t, u, template_data) ==
  LET template == [id |-> t, name |-> template_data.name, tasks |-> template_data.tasks,
                   created_by |-> u, created_at |-> DateTime(now)]
  IN /\ tcalls[t].pc = "idle"
     /\ cache' = set(cache, template_key(t), dumps(template))
     /\ tcalls' = [tcalls EXCEPT ![t] = [pc |-> "get", user |-> u, template |-> template,
                                         user_templates |-> <<>>]]
     /\ UNCHANGED <<tasks, now, operations, undo_stack, calls, txlog, polled, response,
                    pending>>

\* user_templates = await cache_service.get(...); if not user_templates: [] ;
\* user_templates.append(template.id)
GetUserTemplates(t) ==
  LET c == tcalls[t]
      got == get(cache, user_templates_key(c.user))
      user_templates == IF Falsy(got) THEN <<>> ELSE got.value
  IN /\ c.pc = "get"
     /\ tcalls' = [tcalls EXCEPT ![t].pc = "set",
                                 ![t].user_templates = Append(user_templates, c.template.id)]
     /\ UNCHANGED <<tasks, now, operations, undo_stack, calls, txlog, polled, response,
                    cache, pending>>

\* await cache_service.set(f"user_{user.id}_templates", user_templates, ...);
\* return template
SetUserTemplates(t) ==
  LET c == tcalls[t]
  IN /\ c.pc = "set"
     /\ cache' = set(cache, user_templates_key(c.user), c.user_templates)
     /\ tcalls' = [tcalls EXCEPT ![t].pc = "returned"]
     /\ UNCHANGED <<tasks, now, operations, undo_stack, calls, txlog, polled, response,
                    pending>>

\* get_task_templates without a category: the templates of the user's index
\* that are still in the cache
get_task_templates(c, u) ==
  LET got == get(c, user_templates_key(u))
      user_templates == IF Falsy(got) THEN <<>> ELSE got.value
      found == SelectSeq(user_templates, LAMBDA id : get(c, template_key(id)).py # "None")
  IN [k \in DOMAIN found |-> TaskTemplate(get(c, template_key(found[k])).value)]

\* a dict.update that keeps the value of a key the dict already has
update_keeps(d, e) == [f \in DOMAIN d \cup DOMAIN e |-> IF f \in DOMAIN d THEN d[f] ELSE e[f]]

\* task_data.update(customizations)
update(d, e) == [f \in DOMAIN d \cup DOMAIN e |-> IF f \in DOMAIN e THEN e[f] ELSE d[f]]

\* apply_task_template: ValueError for a template that is not in the cache,
\* bulk_create_tasks with the merged task maps otherwise. The call keeps the
\* template id and the customizations it was given
apply_task_template(s, u, template_id, customizations) ==
  LET template_data == get(cache, template_key(template_id))
  IN IF template_data.py = "None"
     THEN /\ response' = [status_code |-> 500, operation_id |-> NoId, tasks |-> <<>>]
          /\ UNCHANGED <<tasks, now, operations, undo_stack, calls, txlog, polled, kv>>
     ELSE LET template == TaskTemplate(template_data.value)
              tasks_data == [k \in DOMAIN template.tasks |->
                               update(template.tasks[k], customizations)]
          IN /\ Len(operations) < MaxOps
             /\ Begin(s, u, "create", tasks_data,
                      [template_id |-> template_id, customizations |-> customizations])
             /\ UNCHANGED web

\* POST /bulk/templates: the bodies of the requests
TemplateBodies ==
  {[name |-> "N", tasks |-> <<[title |-> "A", priority |-> "high"]>>],
   [name |-> "N", tasks |-> <<[title |-> "A"], [title |-> "B", completed |-> TRUE]>>]}

\* POST /bulk/templates/apply: no customizations, a changed field, another
\* owner, a key Task does not have
Customizations == {<<>>, [priority |-> "low"], [user_id |-> 2], [colour |-> "red"]}

\* templates created by calls handled at the same time
NextTemplates ==
  \/ \E t \in TemplateSlots, u \in Users, body \in TemplateBodies : StartTemplate(t, u, body)
  \/ \E t \in TemplateSlots : GetUserTemplates(t)
  \/ \E t \in TemplateSlots : SetUserTemplates(t)

SpecTemplates == Init /\ [][NextTemplates]_vars

\* the template ids of the apply requests: the one template user 1 creates,
\* and an id no template has
TemplateIds == {1, 2}

\* one template, created by user 1, and the requests that apply it
NextApply ==
  \/ \E body \in TemplateBodies : StartTemplate(1, 1, body)
  \/ GetUserTemplates(1)
  \/ SetUserTemplates(1)
  \/ \E u \in Users, template_id \in TemplateIds, customizations \in Customizations :
       apply_task_template(1, u, template_id, customizations)
  \/ CreateItem(1) /\ UNCHANGED web
  \/ Commit(1) /\ UNCHANGED web
  \/ Finish(1) /\ UNCHANGED web
  \/ Fail(1) /\ UNCHANGED web

SpecApply == Init /\ [][NextApply]_vars

(* ------------------------------ claims -------------------------------- *)
Terminal(o) == o.status \in {"completed", "failed"}

\* a / b <= c / d for fractions with positive denominators
FracLeq(x, y) == x.num * y.den <= y.num * x.den

\* C1: once the status of an operation is Completed or Failed, no later
\* progress update changes its status, counters, error_message or completed_at
C1_TerminalIsFinal ==
  [][\A o \in DOMAIN operations :
       Terminal(operations[o]) =>
         /\ operations'[o].status = operations[o].status
         /\ operations'[o].processed_items = operations[o].processed_items
         /\ operations'[o].failed_items = operations[o].failed_items
         /\ operations'[o].error_message = operations[o].error_message
         /\ operations'[o].completed_at = operations[o].completed_at]_vars

\* C2: error_message is set only if status = Failed
C2_ErrorOnlyWhenFailed ==
  \A o \in DOMAIN operations :
    operations[o].error_message # NoneStr => operations[o].status = "failed"

\* C3: 0 <= failed_items <= processed_items <= total_items, always
C3_CounterOrder ==
  \A o \in DOMAIN operations :
    /\ 0 <= operations[o].failed_items
    /\ operations[o].failed_items <= operations[o].processed_items
    /\ operations[o].processed_items <= operations[o].total_items

ProgressInRange(o) ==
  /\ FracLeq([num |-> 0, den |-> 1], progress_percentage(o))
  /\ FracLeq(progress_percentage(o), [num |-> 100, den |-> 1])

\* C4 as claimed: over all the progress updates of an operation, the one of a
\* failed transaction included, progress_percentage never decreases and lies
\* in [0, 100]
C4_ProgressMonotone ==
  [][\A o \in DOMAIN operations :
       /\ ProgressInRange(operations'[o])
       /\ FracLeq(progress_percentage(operations[o]),
                  progress_percentage(operations'[o]))]_vars

\* C4 amended: progress_percentage always lies in [0, 100], and it never
\* decreases over the progress updates of a bulk call other than the update
\* issued when the transaction fails (which reports processed_items = 0)
C4_ProgressMonotoneUntilFailure ==
  /\ [](\A o \in DOMAIN operations : ProgressInRange(operations[o]))
  /\ [][\A o \in DOMAIN operations :
          ~(txlog[o] = "open" /\ txlog'[o] = "rolledback") =>
            FracLeq(progress_percentage(operations[o]),
                    progress_percentage(operations'[o]))]_vars

\* C4 witness: an operation whose progress has gone up to 100 in two updates
C4_Witness ==
  \E o \in DOMAIN operations :
    /\ operations[o].total_items = 2
    /\ operations[o].processed_items = 2
    /\ txlog[o] = "open"

\* C5: an operation whose bulk call has returned or raised is Completed or
\* Failed, also when fewer tasks were processed than the request named
C5_FinishedIsTerminal ==
  \A o \in DOMAIN operations : Finished(o) => Terminal(operations[o])

\* the items of a bulk create that the Task constructor rejects
BadItems(c) ==
  {k \in DOMAIN c.items : ~TaskCtorOk(DictSet(c.items[k], "user_id", c.user))}

\* C6: a bulk create that commits (no transaction-fatal error) ends Completed,
\* with failed_items equal to the number of its failed items, wherever in the
\* list they are
C6_PartialFailureCompletes ==
  \A s \in Slots :
    (calls[s].pc = "committed" /\ calls[s].kind = "create") =>
      /\ operations[calls[s].op].status = "completed"
      /\ operations[calls[s].op].failed_items = Cardinality(BadItems(calls[s]))

\* C7: a bulk call that fails as a whole commits none of its changes (the step
\* that rolls back leaves the store as it is, and the operation is never
\* committed afterwards), ends Failed with error_message and completed_at set
\* and processed_items = 0, and is on no undo stack
C7_FatalErrorRollsBack ==
  /\ [](\A o \in DOMAIN operations :
          txlog[o] = "rolledback" =>
            /\ Finished(o)
            /\ operations[o].status = "failed"
            /\ Truthy(operations[o].error_message)
            /\ operations[o].completed_at # NoTime
            /\ operations[o].processed_items = 0
            /\ operations[o].undo_data = NoUndo
            /\ \A u \in Users : o \notin Range(undo_stack[u]))
  /\ [][\A o \in DOMAIN operations :
          /\ (txlog[o] = "open" /\ txlog'[o] = "rolledback") => tasks' = tasks
          /\ txlog[o] = "rolledback" => txlog'[o] = "rolledback"]_vars

\* C7 witness: a call that had processed an item, then failed as a whole
C7_Witness ==
  \E o \in DOMAIN operations :
    /\ txlog[o] = "rolledback"
    /\ operations[o].started_at # NoTime

\* C8: a status returned as Completed by get_operation_status belongs to an
\* operation whose transaction is committed (never to one still open, or
\* rolled back afterwards)
C8_CompletedMeansCommitted ==
  polled.status = "completed" => txlog[polled.id] = "committed"

\* the list without x, the rest in order
Without(list, x) == SelectSeq(list, LAMBDA y : y # x)

\* C9: every undo stack holds at most 10 records; a push appends the record to
\* the caller's stack, and on a stack that already holds 10 it drops the
\* oldest one and keeps the other 9 and the new one in order; the stacks of
\* the other users stay as they are
C9_UndoStackBounded ==
  /\ [](\A u \in Users : Len(undo_stack[u]) <= 10)
  /\ [][\A s \in Slots :
          (calls[s].pc = "committed" /\ calls'[s].pc = "idle") =>
            LET u == calls[s].user
                old == undo_stack[u]
            IN /\ undo_stack'[u] = IF Len(old) < 10
                                   THEN old \o <<calls[s].op>>
                                   ELSE SubSeq(old, 2, 10) \o <<calls[s].op>>
               /\ \A v \in Users \ {u} : undo_stack'[v] = undo_stack[v]]_vars

\* C9 witness: user 1 has pushed 11 records, none was undone, its stack holds
\* the last 10 of them, and the stack of user 2 holds a record
C9_Witness ==
  /\ Len(undo_stack[1]) = 10
  /\ undo_stack[2] # <<>>
  /\ \E o \in OpsOf(1) :
       /\ o \in Gone
       /\ \A n \in Range(operations[o].undo_data.task_ids) : n \in DOMAIN tasks
       /\ \A k \in DOMAIN undo_stack[1] : undo_stack[1][k] > o

\* what an undo request of user u may do when the record it is about is x
\* (NoId: there is none): nothing, or take x and only x off the stack of u
\* and, for a record of a bulk create, delete the tasks x created and no other
UndoActsOn(u, x) ==
  /\ \A v \in Users \ {u} : undo_stack'[v] = undo_stack[v]
  /\ \/ undo_stack' = undo_stack /\ tasks' = tasks
     \/ /\ x # NoId
        /\ undo_stack'[u] = Without(undo_stack[u], x)
        /\ operations[x].undo_data.operation = "delete" =>
             /\ DOMAIN tasks' = DOMAIN tasks \ Range(operations[x].undo_data.task_ids)
             /\ \A n \in DOMAIN tasks' : tasks'[n] = tasks[n]

\* C10: undo_operation with an operation_id acts on the record with that id
\* in the caller's own stack and on no other (on none when the caller's stack
\* has no such record); without an id it acts on the most recently pushed
\* record of the caller, the first entry of get_undo_history, which lists the
\* stack most recent first (here: latest operation id first), each entry
\* with can_undo set. A request that changes neither a stack nor the store
\* has acted on no record.
C10_UndoPicksRecord ==
  /\ [](\A u \in Users :
          LET history == get_undo_history(u)
          IN /\ Len(history) = Len(undo_stack[u])
             /\ \A k \in DOMAIN history :
                  /\ history[k].can_undo
                  /\ k > 1 => history[k].id < history[k - 1].id)
  /\ [][((undo_stack' # undo_stack \/ tasks' # tasks) /\ calls' = calls) =>
          \A u \in Users, id \in {NoId} \cup DOMAIN operations, unavailable \in BOOLEAN :
            Undo(u, id, unavailable) =>
              IF id # NoId
              THEN UndoActsOn(u, IF id \in Range(undo_stack[u]) THEN id ELSE NoId)
              ELSE UndoActsOn(u, IF get_undo_history(u) = <<>> THEN NoId
                                 ELSE get_undo_history(u)[1].id)]_vars

\* C10 witness: user 1 has undone, by its id, a record in the middle of its
\* stack: the tasks it created are gone, the records around it are in place
C10_Witness ==
  \E a, b, c \in OpsOf(1) :
    /\ a < b /\ b < c
    /\ a \in Range(undo_stack[1]) /\ c \in Range(undo_stack[1])
    /\ b \in Gone
    /\ \A n \in Range(operations[b].undo_data.task_ids) : n \notin DOMAIN tasks

\* operation o is on no undo stack
OffStacks(o) == \A u \in Users : o \notin Range(undo_stack[u])

C12_FailedUndoChangesNothing ==
  [][\A u \in Users, id \in {NoId} \cup DOMAIN operations, unavailable \in BOOLEAN :
       (Undo(u, id, unavailable) /\ ~UndoResult(u, id, unavailable)) =>
         /\ tasks' = tasks
         /\ undo_stack' = undo_stack
         /\ operations' = operations]_vars

\* the ids of a list of task dicts
Ids(dicts) == {dicts[k].id : k \in DOMAIN dicts}

\* C13: a bulk create adds the tasks it returns, under ids the store did not
\* hold, and changes no task that was there; its undo record names exactly
\* these ids; and a successful undo of the record leaves none of these ids in
\* the store and every other task as it was
C13_CreateUndoRoundTrip ==
  [][/\ \A s \in Slots :
          (calls[s].kind = "create" /\ calls[s].pc = "running" /\ calls'[s].pc = "committed") =>
            /\ Ids(calls[s].out) \cap DOMAIN tasks = {}
            /\ DOMAIN tasks' = DOMAIN tasks \cup Ids(calls[s].out)
            /\ \A n \in DOMAIN tasks : tasks'[n] = tasks[n]
     /\ \A s \in Slots :
          (calls[s].kind = "create" /\ calls[s].pc = "committed" /\ calls'[s].pc = "idle") =>
            /\ operations'[calls[s].op].undo_data.operation = "delete"
            /\ Range(operations'[calls[s].op].undo_data.task_ids) = Ids(calls[s].out)
     /\ (undo_stack' # undo_stack \/ tasks' # tasks) =>
          \A u \in Users, id \in {NoId} \cup DOMAIN operations, unavailable \in BOOLEAN :
            (Undo(u, id, unavailable) /\ UndoResult(u, id, unavailable)) =>
              LET target == operations[UndoTarget(undo_stack[u], id)]
              IN target.operation_type = "create" =>
                   /\ DOMAIN tasks' = DOMAIN tasks \ Range(target.undo_data.task_ids)
                   /\ \A n \in DOMAIN tasks' : tasks'[n] = tasks[n]]_vars

\* C13 witness: a bulk create of two tasks has been undone: its record is off
\* the stack, its two ids are not in the store, the first rows are as they were
C13_Witness ==
  \E o \in DOMAIN operations :
    /\ operations[o].operation_type = "create"
    /\ Finished(o)
    /\ Len(operations[o].undo_data.task_ids) = 2
    /\ OffStacks(o)
    /\ \A n \in Range(operations[o].undo_data.task_ids) : n \notin DOMAIN tasks
    /\ \A n \in DOMAIN InitTasks : n \in DOMAIN tasks /\ tasks[n] = InitTasks[n]

\* C14: an undo of a bulk delete, asked while the store is available,
\* succeeds, and the store then holds for every deleted task a task with the
\* same title, completed flag, priority and owner
C14_DeleteUndoRoundTrip ==
  [][\A u \in Users, id \in {NoId} \cup DOMAIN operations :
       LET target == UndoTarget(undo_stack[u], id)
       IN (/\ Undo(u, id, FALSE)
           /\ target # NoId
           /\ operations[target].operation_type = "delete"
           /\ operations[target].undo_data # NoUndo) =>
            /\ UndoResult(u, id, FALSE)
            /\ \A k \in DOMAIN operations[target].undo_data.tasks :
                 LET deleted == operations[target].undo_data.tasks[k]
                 IN \E n \in DOMAIN tasks' :
                      /\ tasks'[n].title = deleted.title
                      /\ tasks'[n].completed = deleted.completed
                      /\ tasks'[n].priority = deleted.priority
                      /\ tasks'[n].user_id = deleted.user_id]_vars

Targeted(c) ==
  IF c.kind = "reorder" THEN {c.items[j].id : j \in DOMAIN c.items} ELSE Range(c.items)

\* the tasks of the store that user u may work on
MayTouch(u) == {n \in DOMAIN tasks : role(u) = "admin" \/ tasks[n].user_id = u}

\* C16: a bulk update, delete or duplicate works on the named tasks that
\* exist and that the caller owns, or on all named tasks that exist when the
\* caller is an administrator; a reorder changes no other than these. The
\* commit of a caller who is no administrator changes and deletes no task of
\* another owner; processed_items counts the tasks worked on, failed_items is
\* 0 and the operation has not failed
C16_OwnershipScoping ==
  [][\A s \in Slots :
       LET c == calls[s]
       IN /\ (c.kind \in {"update", "delete", "duplicate"} /\ ~c.queried /\ calls'[s].queried) =>
               Ids(Matched(c)) = Targeted(c) \cap MayTouch(c.user)
          /\ (c.kind \in {"update", "delete", "duplicate", "reorder"}
                /\ c.pc = "running" /\ calls'[s].pc = "committed") =>
               /\ role(c.user) # "admin" =>
                    \A n \in DOMAIN tasks :
                      tasks[n].user_id # c.user => n \in DOMAIN tasks' /\ tasks'[n] = tasks[n]
               /\ \A k \in DOMAIN c.pend :
                    c.pend[k].t \in {"upd", "del"} =>
                      c.pend[k].id \in Targeted(c) \cap MayTouch(c.user)
               /\ operations[c.op].processed_items =
                    IF c.kind = "reorder" THEN Len(c.pend) ELSE Len(c.matched)
               /\ operations[c.op].failed_items = 0
               /\ operations[c.op].status # "failed"]_vars

\* C16 witness: user 1, who is no administrator, has deleted tasks 1 and 2 in
\* one call: task 1 is gone, task 2 of user 2 is there as before, one task
\* was counted
C16_Witness ==
  \E o \in DOMAIN operations :
    /\ operations[o].user_id = 1
    /\ operations[o].operation_type = "delete"
    /\ operations[o].total_items = 2
    /\ operations[o].processed_items = 1
    /\ txlog[o] = "committed"
    /\ 1 \notin DOMAIN tasks
    /\ 2 \in DOMAIN tasks /\ tasks[2] = InitTasks[2]

\* the body of request req has one of the defects the validation is said to
\* refuse: an empty list, a list over the maximum of its kind, a create item
\* without a title, a priority change to a value outside low, medium, high
Defective(req) ==
  LET list == CASE req.endpoint = "create" -> req.tasks
                [] req.endpoint = "reorder" -> req.task_positions
                [] OTHER -> req.task_ids
  IN \/ Len(list) = 0
     \/ req.endpoint \in {"create", "duplicate"} /\ Len(list) > 100
     \/ req.endpoint \in {"update", "delete", "status", "priority", "reorder"}
          /\ Len(list) > 1000
     \/ req.endpoint = "create" /\ \E k \in DOMAIN list : "title" \notin DOMAIN list[k]
     \/ req.endpoint = "priority" /\ req.priority \notin {"low", "medium", "high"}

\* C17: a bulk request whose body is empty, over the maximum of its kind, has a
\* create item without a title or names a priority outside low, medium, high
\* is refused: no operation record is created, and the task store, the
\* operations map and every undo stack stay as they were
C17_InvalidRequestRejected ==
  [][\A u \in Users, req \in ApiRequests :
       (Defective(req) /\ Receive(1, u, req)) =>
         /\ response'.status_code = 422
         /\ response'.operation_id = NoId
         /\ operations' = operations
         /\ tasks' = tasks
         /\ undo_stack' = undo_stack
         /\ calls' = calls]_vars

\* a request was refused after an earlier one had left tasks, an operation and
\* an undo record behind
C17_Witness ==
  /\ response.status_code = 422
  /\ Len(operations) >= 1
  /\ \E u \in Users : undo_stack[u] # <<>>
  /\ \E t \in DOMAIN tasks : t \notin DOMAIN InitTasks

\* C18: every bulk call that passed validation gives its operation id back to
\* the caller, also when the call failed as a whole, so that the status of
\* the failed operation can be asked for by that id
C18_OperationIdReturned ==
  response.status_code \in {200, 500} =>
    /\ response.operation_id \in DOMAIN operations
    /\ response.status_code = 500 => operations[response.operation_id].status = "failed"

\* C19: a bulk create of N items that Task accepts, by user u, ends with
\* status completed, total_items = processed_items = N and failed_items = 0,
\* and returns N tasks whose ids differ from one another and were not in the
\* store before, each owned by u whatever user_id its item carried and with
\* completed false when its item did not set it
C19_BulkCreate ==
  [][\A s \in Slots :
       LET c == calls[s]
           N == Len(c.items)
       IN (c.kind = "create" /\ \A k \in DOMAIN c.items : TaskCtorOk(c.items[k])) =>
            /\ (c.pc = "running" /\ calls'[s].pc = "committed") =>
                 /\ Len(c.out) = N
                 /\ \A j, k \in DOMAIN c.out : j # k => c.out[j].id # c.out[k].id
                 /\ \A k \in DOMAIN c.out :
                      /\ c.out[k].id \notin DOMAIN tasks
                      /\ c.out[k].id \in DOMAIN tasks'
                      /\ tasks'[c.out[k].id].user_id = c.user
                      /\ tasks'[c.out[k].id].title = c.items[k].title
                 /\ \A t \in DOMAIN tasks : t \in DOMAIN tasks' /\ tasks'[t] = tasks[t]
            /\ (c.pc = "committed" /\ calls'[s].pc = "idle") =>
                 /\ response'.status_code = 200
                 /\ response'.operation_id = c.op
                 /\ Len(response'.tasks) = N
                 /\ \A k \in 1..N :
                      /\ response'.tasks[k].id \in DOMAIN tasks
                      /\ response'.tasks[k].user_id = c.user
                      /\ response'.tasks[k].title = c.items[k].title
                      /\ "completed" \notin DOMAIN c.items[k] =>
                           /\ response'.tasks[k].completed = FALSE
                           /\ tasks[response'.tasks[k].id].completed = FALSE
                 /\ operations'[c.op].status = "completed"
                 /\ operations'[c.op].total_items = N
                 /\ operations'[c.op].processed_items = N
                 /\ operations'[c.op].failed_items = 0]_vars

\* user 1 was answered with the two tasks of a create whose first item named
\* user 2 as owner and whose second item set completed
C19_Witness ==
  /\ response.status_code = 200
  /\ Len(response.tasks) = 2
  /\ response.operation_id \in DOMAIN operations
  /\ operations[response.operation_id].operation_type = "create"
  /\ operations[response.operation_id].user_id = 1
  /\ response.tasks[2].completed = TRUE
  /\ \A k \in 1..2 : tasks[response.tasks[k].id].user_id = 1

\* C20: the commit of a duplicate call adds, for each task it matched, exactly
\* one task under an id that was not in the store and is not the original's,
\* with the original's title followed by the caller's suffix, the original's
\* description, priority and due date, completed false and the caller as
\* owner; every task that was in the store is left as it was
C20_Duplicate ==
  [][\A s \in Slots :
       LET c == calls[s]
       IN (c.kind = "duplicate" /\ c.pc = "running" /\ calls'[s].pc = "committed") =>
            /\ Len(c.out) = Len(c.matched)
            /\ Cardinality(Ids(c.matched)) = Len(c.matched)
            /\ Ids(c.matched) \subseteq Targeted(c)
            /\ Cardinality(Ids(c.out)) = Len(c.out)
            /\ DOMAIN tasks' \ DOMAIN tasks = Ids(c.out)
            /\ \A k \in DOMAIN c.out :
                 LET original == c.matched[k]
                     copy == tasks'[c.out[k].id]
                 IN /\ copy.id # original.id
                    /\ copy.title = original.title \o c.data.suffix
                    /\ copy.description = original.description
                    /\ copy.priority = original.priority
                    /\ copy.due_date = original.due_date
                    /\ copy.completed = FALSE
                    /\ copy.user_id = c.user
            /\ \A n \in DOMAIN tasks : n \in DOMAIN tasks' /\ tasks'[n] = tasks[n]]_vars

\* the administrator has duplicated tasks 1 and 2: both are as before, and
\* tasks 3 and 4 are their copies, not completed and owned by the administrator
C20_Witness ==
  /\ \E o \in DOMAIN operations :
       /\ operations[o].operation_type = "duplicate"
       /\ operations[o].user_id = 2
       /\ txlog[o] = "committed"
  /\ DOMAIN tasks = {1, 2, 3, 4}
  /\ tasks[1] = InitTasks[1] /\ tasks[2] = InitTasks[2]
  /\ tasks[3].title = "A (Copy)" /\ tasks[3].description = "D"
  /\ tasks[3].due_date = DateTime(3) /\ tasks[3].user_id = 2
  /\ tasks[2].completed /\ ~tasks[4].completed /\ tasks[4].user_id = 2

\* C21: a duplicate call that succeeded leaves, when it returns, the list of
\* the ids of the copies as the reversal payload of its operation, and the
\* operation on the undo stack of the caller
C21_DuplicateRecordsUndo ==
  [][\A s \in Slots :
       LET c == calls[s]
       IN (c.kind = "duplicate" /\ c.pc = "committed" /\ calls'[s].pc = "idle") =>
            /\ operations'[c.op].undo_data.operation = "delete"
            /\ Range(operations'[c.op].undo_data.task_ids) = Ids(c.out)
            /\ c.op \in Range(undo_stack'[c.user])]_vars

C25_StartedBeforeTerminal ==
  \A o \in DOMAIN operations :
    Terminal(operations[o]) =>
      /\ operations[o].started_at # NoTime
      /\ operations[o].started_at <= operations[o].completed_at

\* C26: progress_percentage is processed_items / total_items * 100, and 100
\* when total_items is 0; a progress update without error that reports fewer
\* items than total_items leaves an operation that is not completed or failed
\* running, and one that reports total_items or more makes the operation
\* completed and sets completed_at
C26_ProgressAndStatus ==
  \A id \in DOMAIN operations :
    LET o == operations[id]
        pct == progress_percentage(o)
    IN /\ pct.den > 0
       /\ o.total_items = 0 => pct.num = 100 * pct.den
       /\ o.total_items # 0 => pct.num * o.total_items = o.processed_items * 100 * pct.den
       /\ \A processed \in 0..(MaxTotal + 1), failed \in {0, 1}, error_message \in {NoneStr, ""} :
            LET after == update_operation_progress(
                           operations, id, processed, failed, error_message, now)[id]
            IN /\ after.processed_items = processed
               /\ (processed < o.total_items /\ ~Terminal(o)) => after.status = "running"
               /\ processed >= o.total_items =>
                    /\ after.status = "completed"
                    /\ after.completed_at = now /\ after.completed_at # NoTime

\* an operation without items was completed by its first update and shows
\* 100; the clock has moved since it was created
C26_Witness ==
  \E id \in DOMAIN operations :
    /\ operations[id].total_items = 0
    /\ operations[id].status = "completed"
    /\ progress_percentage(operations[id]) = [num |-> 100, den |-> 1]
    /\ operations[id].completed_at > operations[id].created_at

\* C29: the commit of a bulk update, with any update map, leaves the id and
\* the owner of every task as they were, and leaves every task the call did
\* not match as it was
C29_UpdateFrame ==
  [][\A s \in Slots :
       LET c == calls[s]
       IN (c.kind = "update" /\ c.pc = "running" /\ calls'[s].pc = "committed") =>
            \A n \in DOMAIN tasks :
              /\ n \in DOMAIN tasks'
              /\ tasks'[n].id = tasks[n].id
              /\ tasks'[n].user_id = tasks[n].user_id
              /\ n \notin Ids(c.matched) => tasks'[n] = tasks[n]]_vars

\* C27: after the commit of a reorder, of any two tasks it re-stamped the one
\* with the larger position has the strictly earlier updated_at, whatever
\* time passed between the items
C27_ReorderTimestamps ==
  [][\A s \in Slots :
       LET c == calls[s]
           stamped == {c.pend[k].id : k \in DOMAIN c.pend}
       IN (c.kind = "reorder" /\ c.pc = "running" /\ calls'[s].pc = "committed") =>
            \A a, b \in DOMAIN c.items :
              (/\ c.items[a].id \in stamped
               /\ c.items[b].id \in stamped
               /\ c.items[a].position < c.items[b].position) =>
                tasks'[c.items[b].id].updated_at.t < tasks'[c.items[a].id].updated_at.t]_vars

\* C30: an undo by a user who is no administrator removes and changes only
\* tasks that this user owns when the undo runs
C30_UndoTouchesOwnTasks ==
  [][(undo_stack' # undo_stack /\ tasks' # tasks) =>
       \A u \in Users, id \in {NoId} \cup DOMAIN operations :
         (role(u) # "admin" /\ Undo(u, id, FALSE)) =>
           \A n \in DOMAIN tasks :
             (n \notin DOMAIN tasks' \/ tasks'[n] # tasks[n]) => tasks[n].user_id = u]_vars

\* the cached reads of the search service for user u
SearchKeys(u) == {search_key(u), suggestions_key(u), stats_key(u)}

\* C23: every bulk call that commits, of every kind, and every undo that
\* commits, deletes the cached task listing of its caller and the caller's
\* cached search results, suggestions and statistics before it returns, and
\* nothing is deleted from the cache but by a caller whose transaction has
\* committed; a call that fails deletes nothing and starts no invalidation
C23_InvalidationAfterCommit ==
  [][/\ \A k \in DOMAIN cache \ DOMAIN cache' :
          \E p \in pending :
            /\ p.user = k.n
            /\ p.by # 0 => txlog[calls[p.by].op] = "committed"
     /\ \A p \in pending' \ pending :
          \/ p.step = "user" /\ [p EXCEPT !.step = "search"] \in pending
          \/ /\ p.step = "search"
             /\ p.by # 0
             /\ calls[p.by].pc = "running"
             /\ txlog'[calls[p.by].op] = "committed"
             /\ p.user = calls[p.by].user
          \/ /\ p.step = "search"
             /\ p.by = 0
             /\ Len(undo_stack'[p.user]) < Len(undo_stack[p.user])
     /\ \A s \in Slots :
          (calls[s].pc = "running" /\ calls'[s].pc = "committed") =>
            Invalidation(s, calls[s].user) \in pending'
     /\ \A u \in Users :
          Len(undo_stack'[u]) < Len(undo_stack[u]) => Invalidation(0, u) \in pending'
     /\ \A p \in pending \ pending' :
          /\ p.step = "search" =>
               /\ [p EXCEPT !.step = "user"] \in pending'
               /\ SearchKeys(p.user) \cap DOMAIN cache' = {}
          /\ p.step = "user" => user_tasks_key(p.user) \notin DOMAIN cache'
     /\ \A s \in Slots :
          (calls[s].pc = "committed" /\ calls'[s].pc = "idle") =>
            \A p \in pending : p.by # s
     /\ \A s \in Slots :
          (calls[s].pc = "running" /\ calls'[s].pc = "idle") =>
            cache' = cache /\ pending' = pending]_vars

\* a call has committed and forgotten the searches of its caller; the
\* caller's listing, cached before the commit, is the next to go
C23_Witness ==
  \E p \in pending :
    /\ p.by = 1 /\ p.step = "user"
    /\ txlog[calls[1].op] = "committed"
    /\ SearchKeys(p.user) \cap DOMAIN cache = {}
    /\ user_tasks_key(p.user) \in DOMAIN cache
    /\ cache[user_tasks_key(p.user)] # Visible(p.user)

\* C28: once create_task_template has returned a template to user u, the
\* template is in the cache under its own key, its id is in the index of u,
\* and get_task_templates(u) returns it; also when other create_task_template
\* calls of u were handled at the same time
C28_TemplateRecorded ==
  \A t \in TemplateSlots :
    tcalls[t].pc = "returned" =>
      LET id == tcalls[t].template.id
          u == tcalls[t].user
          listed == get_task_templates(cache, u)
      IN /\ template_key(id) \in DOMAIN cache
         /\ user_templates_key(u) \in DOMAIN cache
         /\ id \in Range(cache[user_templates_key(u)])
         /\ \E k \in DOMAIN listed : listed[k].id = id

\* the call was started by apply_task_template
Applied(c) == "template_id" \in DOMAIN c.data

\* the template a call applies, as apply_task_template read it
TemplateOf(c) == TaskTemplate(cache[template_key(c.data.template_id)])

====
